---------------------------- MODULE Spec2Model ----------------------------
(***************************************************************************)
(* Session state machine of the AI Learning Assistant (src/app.py).        *)
(*                                                                         *)
(* The Streamlit script is re-executed from the top on every user          *)
(* interaction.  One action below is one execution of the script: the page *)
(* branch selected by st.session_state.page, with at most one button       *)
(* pressed.  st.session_state is the state; texts are sequences of         *)
(* one-character strings so that strip, splitlines, lower, startswith and  *)
(* the numbering regex are computed character by character.                *)
(***************************************************************************)
EXTENDS Integers, Sequences, FiniteSets, TLC

VARIABLES
    page,              \* st.session_state.page
    lesson,            \* st.session_state.lesson
    quiz,              \* st.session_state.quiz: sequence of [question, answer]
    current_q,         \* st.session_state.current_q (0-based)
    score,             \* st.session_state.score
    hints_used,        \* st.session_state.hints_used: q_index -> count
    difficulty_grade,  \* st.session_state.difficulty_grade
    rerun,             \* a script execution is pending (first load or st.rerun())
    event,             \* which branch the last script execution took
    calls,             \* ask_openrouter calls made by the last script execution
    error,             \* exception that ended the last script execution
    tutRuns,           \* calls of the last script executions on the tutorial page
    nSubmits,          \* answers evaluated since the quiz was stored
    nCorrect,          \* of those, the ones judged correct
    sn_line,           \* a line handed to strip_numbering
    sn_results         \* what successive applications of strip_numbering gave

vars == <<page, lesson, quiz, current_q, score, hints_used, difficulty_grade,
          rerun, event, calls, error, tutRuns, nSubmits, nCorrect,
          sn_line, sn_results>>

-----------------------------------------------------------------------------
(* Characters and Python string methods                                    *)

UpperChars == <<"A","B","C","D","E","F","G","H","I","J","K","L","M",
                "N","O","P","Q","R","S","T","U","V","W","X","Y","Z">>

LowerChars == <<"a","b","c","d","e","f","g","h","i","j","k","l","m",
                "n","o","p","q","r","s","t","u","v","w","x","y","z">>

DigitChars == <<"0","1","2","3","4","5","6","7","8","9">>

\* str.isspace() for the characters of the model's alphabet
IsSpace(c) == c \in {" ", "\t", "\n", "\r"}

\* \d of the regex
IsDigit(c) == \E d \in 1..Len(DigitChars) : DigitChars[d] = c

\* one character of str.lower()
LowerChar(c) ==
    IF \E k \in 1..Len(UpperChars) : UpperChars[k] = c
    THEN LowerChars[CHOOSE k \in 1..Len(UpperChars) : UpperChars[k] = c]
    ELSE c

\* str.lower()
Lower(s) == [k \in 1..Len(s) |-> LowerChar(s[k])]

\* s[i:] with a 1-based index
From(s, i) == SubSeq(s, i, Len(s))

\* index of the first character at or after i that is not whitespace
RECURSIVE SkipSpace(_, _)
SkipSpace(s, i) ==
    IF i <= Len(s) /\ IsSpace(s[i]) THEN SkipSpace(s, i + 1) ELSE i

\* index of the first character at or after i that is not a digit
RECURSIVE SkipDigits(_, _)
SkipDigits(s, i) ==
    IF i <= Len(s) /\ IsDigit(s[i]) THEN SkipDigits(s, i + 1) ELSE i

\* index of the last character at or before j that is not whitespace
RECURSIVE LastNonSpace(_, _)
LastNonSpace(s, j) ==
    IF j >= 1 /\ IsSpace(s[j]) THEN LastNonSpace(s, j - 1) ELSE j

\* str.strip()
Strip(s) == SubSeq(s, SkipSpace(s, 1), LastNonSpace(s, Len(s)))

\* str.startswith(prefix)
StartsWith(s, prefix) ==
    /\ Len(s) >= Len(prefix)
    /\ SubSeq(s, 1, Len(prefix)) = prefix

\* index of the first line break character at or after i, Len(s) + 1 if none
NextBreak(s, i) ==
    LET breaks == {j \in i..Len(s) : s[j] \in {"\n", "\r"}} IN
    IF breaks = {} THEN Len(s) + 1
    ELSE CHOOSE j \in breaks : \A k \in breaks : j <= k

\* str.splitlines(): breaks at \n, \r and \r\n, no empty last line
RECURSIVE SplitFrom(_, _)
SplitFrom(s, i) ==
    IF i > Len(s) THEN <<>>
    ELSE LET b == NextBreak(s, i)
             after == IF b < Len(s) /\ s[b] = "\r" /\ s[b + 1] = "\n"
                      THEN b + 2 ELSE b + 1
         IN  <<SubSeq(s, i, b - 1)>> \o SplitFrom(s, after)

SplitLines(s) == SplitFrom(s, 1)

\* [line for line in text.splitlines() if line.strip()]
NonBlankLines(text) ==
    SelectSeq(SplitLines(text), LAMBDA line : Strip(line) # <<>>)

\* optional separator of the regex: [\).\:-]?
SkipSeparator(s, i) ==
    IF i <= Len(s) /\ s[i] \in {")", ".", ":", "-"} THEN i + 1 ELSE i

\* strip_numbering without the final .strip()
strip_numbering_NoTrim(line) ==
    LET d == SkipSpace(line, 1)
        e == SkipDigits(line, d)
    IN  IF e = d
        THEN line
        ELSE From(line, SkipSpace(line, SkipSeparator(line, SkipSpace(line, e))))

\* re.sub(r'^\s*\d+\s*[\).\:-]?\s*', '', line).strip()
strip_numbering(line) ==
    LET d == SkipSpace(line, 1)
        e == SkipDigits(line, d)
    IN  IF e = d
        THEN Strip(line)
        ELSE Strip(From(line, SkipSpace(line, SkipSeparator(line, SkipSpace(line, e)))))

-----------------------------------------------------------------------------
(* Program constants                                                       *)

QuizSize == 10
MaxHints == 3
MinGrade == 1
MaxGrade == 12
InitialGrade == 6

\* the selectbox "Select Grade" shows its first option until the user picks one
DefaultGrade == 1

(* Bounds of the model                                                     *)

\* longest line handed to strip_numbering on its own
MaxLineLen == 4

\* how many times strip_numbering is applied in a row to one line
MaxPasses == 2

\* the Hint button is pressed only on the first HintQuestions questions
HintQuestions == 1

\* number of script executions on the tutorial page that tutRuns remembers
RunWindow == 3

-----------------------------------------------------------------------------
(* Texts the generation client returns                                     *)

RECURSIVE JoinLines(_, _)
JoinLines(lines, sep) ==
    IF lines = <<>> THEN <<>>
    ELSE IF Len(lines) = 1 THEN lines[1]
    ELSE lines[1] \o sep \o JoinLines(Tail(lines), sep)

\* decimal digits of a number below 100
NumStr(n) ==
    IF n < 10 THEN <<DigitChars[n + 1]>>
    ELSE <<DigitChars[(n \div 10) + 1], DigitChars[(n % 10) + 1]>>

\* the string ask_openrouter returns from its except branch
ErrorReply ==
    <<"x", " ", "E", "r", "r", "o", "r", " ", "c", "o", "n", "t", "a", "c", "t",
      "i", "n", "g", " ", "A", "P", "I", ":", " ", "e">>

Insufficient == <<"I", "n", "s", "u", "f", "f", "i", "c", "i", "e", "n", "t">>

\* "1. Qa\n2. Qb\n ... 10. Qj"
QText10 ==
    JoinLines([i \in 1..10 |-> NumStr(i) \o <<".", " ", "Q", LowerChars[i]>>],
              <<"\n">>)

\* twelve questions numbered "1) ", indented, separated by blank lines
QText12 ==
    JoinLines([i \in 1..12 |->
                  <<" ">> \o NumStr(i) \o <<")", " ", "Q", LowerChars[i], " ">>],
              <<"\r", "\n", " ", "\n">>)

\* only three questions
QText3 ==
    JoinLines([i \in 1..3 |-> NumStr(i) \o <<".", " ", "Q", LowerChars[i]>>],
              <<"\n">>)

\* "1: Aa\n ... 10: Aj\n"
AText10 ==
    JoinLines([i \in 1..10 |-> NumStr(i) \o <<":", " ", "A", LowerChars[i]>>],
              <<"\n">>) \o <<"\n">>

\* eleven answers, the third one being "3 - Insufficient "
ATextInsufficient ==
    JoinLines([i \in 1..11 |->
                  IF i = 3
                  THEN NumStr(i) \o <<" ", "-", " ">> \o Insufficient \o <<" ">>
                  ELSE NumStr(i) \o <<":", " ", "A", LowerChars[i]>>],
              <<"\n">>)

\* nine answers, one fewer than the questions
AText9 ==
    JoinLines([i \in 1..9 |-> NumStr(i) \o <<":", " ", "A", LowerChars[i]>>],
              <<"\n">>)

LessonText == <<"L", "e", "s", "s", "o", "n">>

\* replies to a tutorial prompt
LessonReplies == {LessonText, ErrorReply}

\* replies to the "Generate 10 quiz questions" prompt
QuestionReplies == {QText10, QText12, QText3, ErrorReply, <<>>}

\* replies to the "provide the correct answers" prompt
AnswerReplies == {AText10, ATextInsufficient, AText9, ErrorReply, <<>>}

\* replies to the grading prompt
GradeReplies ==
    { <<"C", "O", "R", "R", "E", "C", "T", " ", "o", "k">>,
      <<"C", "o", "r", "r", "e", "c", "t", "l", "y">>,
      <<"I", "N", "C", "O", "R", "R", "E", "C", "T", "\n", "n", "o">>,
      <<" ", "\n", " ", "c", "o", "r", "r", "e", "c", "t", "\n", "o", "k">>,
      ErrorReply,
      <<>>,
      <<" ", "\n">> }

\* values of the text inputs "Enter the concept" and "Your answer:"
Concepts == {<<>>, <<" ">>, <<"F", "o", "r", "c", "e">>}
Answers == {<<>>, <<" ", "\t">>, <<"4", " ">>}
Subjects == {"Physics", "Chemistry", "Biology", "Mathematics"}

-----------------------------------------------------------------------------
(* Helpers                                                                 *)

\* check_answer_with_llm comparing the first line without .lower()
check_answer_with_llm_NoLower(resp) ==
    LET lines == SplitLines(Strip(resp)) IN
    IF lines = <<>>
    THEN [raised |-> "IndexError", is_correct |-> FALSE, feedback |-> resp]
    ELSE [raised |-> "none",
          is_correct |-> StartsWith(Strip(lines[1]),
                                    <<"c", "o", "r", "r", "e", "c", "t">>),
          feedback |-> resp]

\* check_answer_with_llm on the reply resp of ask_openrouter;
\* [0] of an empty list of lines raises IndexError
check_answer_with_llm(resp) ==
    LET lines == SplitLines(Strip(resp)) IN
    IF lines = <<>>
    THEN [raised |-> "IndexError", is_correct |-> FALSE, feedback |-> resp]
    ELSE [raised |-> "none",
          is_correct |-> StartsWith(Lower(Strip(lines[1])),
                                    <<"c", "o", "r", "r", "e", "c", "t">>),
          feedback |-> resp]

\* check_answer_with_llm of every grading reply of the model, computed once
Verdicts == [resp \in GradeReplies |-> check_answer_with_llm(resp)]

\* [strip_numbering(l) for l in lines]
StripAll(lines) == [k \in 1..Len(lines) |-> strip_numbering(lines[k])]

\* PairLines with the pairs whose answer is "insufficient" left out
PairLines_DropInsufficient(quiz_text, answers_text) ==
    LET questions == StripAll(NonBlankLines(quiz_text))
        answers == StripAll(NonBlankLines(answers_text))
        length == IF Len(questions) < Len(answers)
                  THEN Len(questions) ELSE Len(answers)
        pairs == [k \in 1..length |->
                     [question |-> questions[k], answer |-> answers[k]]]
    IN  SelectSeq(pairs, LAMBDA p : Lower(p.answer) # Lower(Insufficient))

\* quiz_data after the pairing loop
PairLines(quiz_text, answers_text) ==
    LET questions == StripAll(NonBlankLines(quiz_text))
        answers == StripAll(NonBlankLines(answers_text))
        length == IF Len(questions) < Len(answers)
                  THEN Len(questions) ELSE Len(answers)
    IN  [k \in 1..length |-> [question |-> questions[k], answer |-> answers[k]]]

\* PadQuiz with the padding loop left out: short quiz data passes as it is
PadQuiz_NoPadding(quiz_data) ==
    [raised |-> "none", data |-> quiz_data]

\* the padding loop: its body reads the name concept, which only the home
\* branch of the script binds, so the first iteration raises NameError
PadQuiz(quiz_data) ==
    IF Len(quiz_data) < QuizSize
    THEN [raised |-> "NameError", data |-> quiz_data]
    ELSE [raised |-> "none", data |-> quiz_data]

\* quiz_data[:10]
FirstTen(quiz_data) ==
    SubSeq(quiz_data, 1, IF Len(quiz_data) < QuizSize THEN Len(quiz_data) ELSE QuizSize)

\* lines 196-218 for one pair of replies: the exception raised, if any, and
\* the value assigned to st.session_state.quiz
BuildQuiz(quiz_text, answers_text) ==
    LET padded == PadQuiz(PairLines(quiz_text, answers_text)) IN
    [raised |-> padded.raised, quiz |-> FirstTen(padded.data)]

\* BuildQuiz of every pair of replies of the model, computed once
BuiltQuizzes ==
    [quiz_text \in QuestionReplies, answers_text \in AnswerReplies |->
        BuildQuiz(quiz_text, answers_text)]

\* st.session_state.hints_used.get(str(q_index), 0)
hints_for(h, q_index) == IF q_index \in DOMAIN h THEN h[q_index] ELSE 0

\* st.session_state.hints_used[str(q_index)] = n
SetHints(h, q_index, n) ==
    [k \in (DOMAIN h) \union {q_index} |-> IF k = q_index THEN n ELSE h[k]]

\* tutRuns with one more script execution, the oldest forgotten: the branch
\* taken, its ask_openrouter calls, difficulty_grade before and after
Push(w, ev, n, before, after) ==
    LET r == [ev |-> ev, calls |-> n, before |-> before, after |-> after] IN
    IF Len(w) < RunWindow THEN Append(w, r) ELSE Append(Tail(w), r)

Min(a, b) == IF a < b THEN a ELSE b

\* the quiz page shows a question with its Submit and Hint buttons
ShowsQuestion == page = "quiz" /\ quiz # <<>> /\ current_q < Len(quiz)

\* The keys the script keeps in st.session_state.
SessionKeys ==
    {"page", "lesson", "quiz", "current_q", "score", "hints_used", "difficulty_grade"}

\* The script-level names an execution showing page p has bound when its page
\* branch runs: grade, subject and concept are assigned in the home branch
\* only, and every execution starts with none of them.
BoundNames(p) == IF p = "home" THEN {"grade", "subject", "concept"} ELSE {}

-----------------------------------------------------------------------------
(* State after the STATE INIT block of the first script execution; the     *)
(* page branch of that execution is still to run.                          *)

SessionInit ==
    /\ page = "home"
    /\ lesson = <<>>
    /\ quiz = <<>>
    /\ current_q = 0
    /\ score = 0
    /\ hints_used = <<>>
    /\ difficulty_grade = InitialGrade
    /\ rerun = TRUE
    /\ event = "init"
    /\ calls = 0
    /\ error = "none"
    /\ tutRuns = <<>>
    /\ nSubmits = 0
    /\ nCorrect = 0

Init ==
    /\ SessionInit
    /\ sn_line = <<>>
    /\ sn_results = <<>>

-----------------------------------------------------------------------------
(* Home page                                                               *)

\* The home branch with no button pressed: the first load, the execution
\* st.rerun() starts after Restart (the selectbox is new and shows its first
\* option), or the user picking grade g.
HomeRender(g) ==
    /\ page = "home"
    /\ rerun => g = DefaultGrade
    /\ difficulty_grade' = g
    /\ rerun' = FALSE
    /\ event' = "home_render"
    /\ UNCHANGED <<sn_line, sn_results>>
    /\ calls' = 0
    /\ error' = "none"
    /\ UNCHANGED <<page, lesson, quiz, current_q, score, hints_used,
                   tutRuns, nSubmits, nCorrect>>

\* GenerateTutorial without the reset of score and current_q
GenerateTutorial_KeepsProgress(subject, concept) ==
    /\ page = "home"
    /\ ~rerun
    /\ event' = "generate"
    /\ UNCHANGED <<sn_line, sn_results>>
    /\ error' = "none"
    /\ IF Strip(concept) # <<>>
       THEN \E resp \in LessonReplies :
            /\ lesson' = resp
            /\ quiz' = <<>>
            /\ hints_used' = <<>>
            /\ page' = "tutorial"
            /\ rerun' = TRUE
            /\ calls' = 1
            /\ tutRuns' = <<>>
            /\ nSubmits' = 0
            /\ nCorrect' = 0
            /\ UNCHANGED <<difficulty_grade, current_q, score>>
       ELSE /\ calls' = 0
            /\ UNCHANGED <<page, lesson, quiz, current_q, score, hints_used,
                           difficulty_grade, rerun, tutRuns, nSubmits, nCorrect>>

\* GenerateTutorial without the reset of st.session_state.quiz
GenerateTutorial_KeepsQuiz(subject, concept) ==
    /\ page = "home"
    /\ ~rerun
    /\ event' = "generate"
    /\ UNCHANGED <<sn_line, sn_results>>
    /\ error' = "none"
    /\ IF Strip(concept) # <<>>
       THEN \E resp \in LessonReplies :
            /\ lesson' = resp
            /\ current_q' = 0
            /\ score' = 0
            /\ hints_used' = <<>>
            /\ page' = "tutorial"
            /\ rerun' = TRUE
            /\ calls' = 1
            /\ tutRuns' = <<>>
            /\ nSubmits' = 0
            /\ nCorrect' = 0
            /\ UNCHANGED <<difficulty_grade, quiz>>
       ELSE /\ calls' = 0
            /\ UNCHANGED <<page, lesson, quiz, current_q, score, hints_used,
                           difficulty_grade, rerun, tutRuns, nSubmits, nCorrect>>

\* "Generate Tutorial" pressed with the text input holding concept.  The
\* selectbox still holds the grade of the previous execution, so line 109
\* assigns difficulty_grade its own value.
GenerateTutorial(subject, concept) ==
    /\ page = "home"
    /\ ~rerun
    /\ event' = "generate"
    /\ UNCHANGED <<sn_line, sn_results>>
    /\ error' = "none"
    /\ IF Strip(concept) # <<>>
       THEN \E resp \in LessonReplies :
            /\ lesson' = resp
            /\ quiz' = <<>>
            /\ current_q' = 0
            /\ score' = 0
            /\ hints_used' = <<>>
            /\ page' = "tutorial"
            /\ rerun' = TRUE
            /\ calls' = 1
            /\ tutRuns' = <<>>
            /\ nSubmits' = 0
            /\ nCorrect' = 0
            /\ UNCHANGED difficulty_grade
       ELSE /\ calls' = 0
            /\ UNCHANGED <<page, lesson, quiz, current_q, score, hints_used,
                           difficulty_grade, rerun, tutRuns, nSubmits, nCorrect>>

-----
(* Tutorial page                                                           *)

\* TutorialRender regenerating the lesson on every execution
TutorialRender_Regenerates ==
    /\ page = "tutorial"
    /\ rerun' = FALSE
    /\ event' = "tutorial_render"
    /\ UNCHANGED <<sn_line, sn_results>>
    /\ calls' = 1
    /\ error' = "none"
    /\ \E resp \in LessonReplies : lesson' = resp
    /\ tutRuns' = Push(tutRuns, "render", 1, difficulty_grade, difficulty_grade)
    /\ UNCHANGED <<page, quiz, current_q, score, hints_used,
                   difficulty_grade, nSubmits, nCorrect>>

\* The tutorial branch with no button pressed.
TutorialRender ==
    /\ page = "tutorial"
    /\ rerun' = FALSE
    /\ event' = "tutorial_render"
    /\ UNCHANGED <<sn_line, sn_results>>
    /\ calls' = 0
    /\ error' = "none"
    /\ tutRuns' = Push(tutRuns, "render", 0, difficulty_grade, difficulty_grade)
    /\ UNCHANGED <<page, lesson, quiz, current_q, score, hints_used,
                   difficulty_grade, nSubmits, nCorrect>>

\* Easier and Harder pressed: step is -1 or +1, allowed says whether the
\* grade may move.
ChangeGrade(name, allowed, step, resp) ==
    /\ page = "tutorial"
    /\ ~rerun
    /\ event' = name
    /\ UNCHANGED <<sn_line, sn_results>>
    /\ error' = "none"
    /\ IF allowed
       THEN /\ difficulty_grade' = difficulty_grade + step
            /\ lesson' = resp
            /\ quiz' = <<>>
            /\ current_q' = 0
            /\ score' = 0
            /\ hints_used' = <<>>
            /\ rerun' = TRUE
            /\ calls' = 1
            /\ tutRuns' = Push(tutRuns, name, 1, difficulty_grade, difficulty_grade + step)
            /\ nSubmits' = 0
            /\ nCorrect' = 0
            /\ UNCHANGED page
       ELSE /\ calls' = 0
            /\ tutRuns' = Push(tutRuns, name, 0, difficulty_grade, difficulty_grade)
            /\ UNCHANGED <<page, lesson, quiz, current_q, score, hints_used,
                           difficulty_grade, rerun, nSubmits, nCorrect>>

Easier(resp) == ChangeGrade("easier", difficulty_grade > MinGrade, -1, resp)

\* Harder still stepping at the top grade
Harder_OffByOne(resp) ==
    ChangeGrade("harder", difficulty_grade <= MaxGrade, 1, resp)

Harder(resp) == ChangeGrade("harder", difficulty_grade < MaxGrade, 1, resp)

\* MoveToQuiz storing the quiz with the index at the second question.
MoveToQuiz_StartsAtOne(quiz_text, answers_text) ==
    LET built == BuiltQuizzes[quiz_text, answers_text] IN
    /\ page = "tutorial"
    /\ ~rerun
    /\ event' = "to_quiz"
    /\ UNCHANGED <<sn_line, sn_results>>
    /\ calls' = 2
    /\ error' = built.raised
    /\ IF built.raised = "none"
       THEN /\ quiz' = built.quiz
            /\ current_q' = 1
            /\ score' = 0
            /\ hints_used' = <<>>
            /\ page' = "quiz"
            /\ rerun' = TRUE
            /\ tutRuns' = <<>>
            /\ nSubmits' = 0
            /\ nCorrect' = 0
            /\ UNCHANGED <<lesson, difficulty_grade>>
       ELSE /\ tutRuns' = Push(tutRuns, "to_quiz", 2, difficulty_grade, difficulty_grade)
            /\ UNCHANGED <<page, lesson, quiz, current_q, score, hints_used,
                           difficulty_grade, rerun, nSubmits, nCorrect>>

\* "Understood, let's move to quiz" pressed.
MoveToQuiz(quiz_text, answers_text) ==
    LET built == BuiltQuizzes[quiz_text, answers_text] IN
    /\ page = "tutorial"
    /\ ~rerun
    /\ event' = "to_quiz"
    /\ UNCHANGED <<sn_line, sn_results>>
    /\ calls' = 2
    /\ error' = built.raised
    /\ IF built.raised = "none"
       THEN /\ quiz' = built.quiz
            /\ current_q' = 0
            /\ score' = 0
            /\ hints_used' = <<>>
            /\ page' = "quiz"
            /\ rerun' = TRUE
            /\ tutRuns' = <<>>
            /\ nSubmits' = 0
            /\ nCorrect' = 0
            /\ UNCHANGED <<lesson, difficulty_grade>>
       ELSE /\ tutRuns' = Push(tutRuns, "to_quiz", 2, difficulty_grade, difficulty_grade)
            /\ UNCHANGED <<page, lesson, quiz, current_q, score, hints_used,
                           difficulty_grade, rerun, nSubmits, nCorrect>>

\* "Give me a better tutorial" pressed.
BetterTutorial(resp) ==
    /\ page = "tutorial"
    /\ ~rerun
    /\ lesson' = resp
    /\ rerun' = TRUE
    /\ event' = "better"
    /\ UNCHANGED <<sn_line, sn_results>>
    /\ calls' = 1
    /\ error' = "none"
    /\ tutRuns' = Push(tutRuns, "better", 1, difficulty_grade, difficulty_grade)
    /\ UNCHANGED <<page, quiz, current_q, score, hints_used, difficulty_grade, nSubmits, nCorrect>>

-----------------------------------------------------------------------------
(* Quiz page                                                               *)

\* The quiz branch with no button pressed.
QuizRender ==
    /\ page = "quiz"
    /\ rerun
    /\ rerun' = FALSE
    /\ event' = "quiz_render"
    /\ UNCHANGED <<sn_line, sn_results>>
    /\ calls' = 0
    /\ error' = "none"
    /\ UNCHANGED <<page, lesson, quiz, current_q, score, hints_used,
                   difficulty_grade, tutRuns, nSubmits, nCorrect>>

\* Submit pressed with a blank answer: a warning only.
SubmitBlank ==
    /\ calls' = 0
    /\ error' = "none"
    /\ UNCHANGED <<page, lesson, quiz, current_q, score, hints_used,
                   difficulty_grade, rerun, tutRuns, nSubmits, nCorrect>>

\* SubmitAnswer moving two questions ahead
SubmitAnswer_SkipsTwo(resp) ==
    LET verdict == Verdicts[resp] IN
    /\ calls' = 1
    /\ error' = verdict.raised
    /\ IF verdict.raised = "none"
       THEN /\ score' = IF verdict.is_correct THEN score + 1 ELSE score
            /\ current_q' = current_q + 2
            /\ rerun' = TRUE
            /\ nSubmits' = nSubmits + 1
            /\ nCorrect' = IF verdict.is_correct THEN nCorrect + 1 ELSE nCorrect
            /\ UNCHANGED <<page, lesson, quiz, hints_used, difficulty_grade, tutRuns>>
       ELSE UNCHANGED <<page, lesson, quiz, current_q, score, hints_used,
                        difficulty_grade, rerun, tutRuns, nSubmits,
                        nCorrect>>

\* SubmitAnswer leaving the score alone on a correct verdict
SubmitAnswer_DropsScore(resp) ==
    LET verdict == Verdicts[resp] IN
    /\ calls' = 1
    /\ error' = verdict.raised
    /\ IF verdict.raised = "none"
       THEN /\ current_q' = current_q + 1
            /\ rerun' = TRUE
            /\ nSubmits' = nSubmits + 1
            /\ nCorrect' = IF verdict.is_correct THEN nCorrect + 1 ELSE nCorrect
            /\ UNCHANGED <<page, lesson, quiz, score, hints_used,
                           difficulty_grade, tutRuns>>
       ELSE UNCHANGED <<page, lesson, quiz, current_q, score, hints_used,
                        difficulty_grade, rerun, tutRuns, nSubmits,
                        nCorrect>>

\* Submit pressed with an answer: the grading reply resp is evaluated.
SubmitAnswer(resp) ==
    LET verdict == Verdicts[resp] IN
    /\ calls' = 1
    /\ error' = verdict.raised
    /\ IF verdict.raised = "none"
       THEN /\ score' = IF verdict.is_correct THEN score + 1 ELSE score
            /\ current_q' = current_q + 1
            /\ rerun' = TRUE
            /\ nSubmits' = nSubmits + 1
            /\ nCorrect' = IF verdict.is_correct THEN nCorrect + 1 ELSE nCorrect
            /\ UNCHANGED <<page, lesson, quiz, hints_used, difficulty_grade, tutRuns>>
       ELSE UNCHANGED <<page, lesson, quiz, current_q, score, hints_used,
                        difficulty_grade, rerun, tutRuns, nSubmits,
                        nCorrect>>

\* Submit testing the answer without strip()
Submit_NoStrip(answer) ==
    /\ ShowsQuestion
    /\ ~rerun
    /\ event' = "submit"
    /\ UNCHANGED <<sn_line, sn_results>>
    /\ IF answer = <<>>
       THEN SubmitBlank
       ELSE \E resp \in GradeReplies : SubmitAnswer(resp)

\* Submit pressed with the text input "Your answer:" holding answer; the
\* grading reply exists only when the evaluator is called.
Submit(answer) ==
    /\ ShowsQuestion
    /\ ~rerun
    /\ event' = "submit"
    /\ UNCHANGED <<sn_line, sn_results>>
    /\ IF Strip(answer) = <<>>
       THEN SubmitBlank
       ELSE \E resp \in GradeReplies : SubmitAnswer(resp)

\* Hint refusing only above MaxHints
Hint_OffByOne ==
    /\ ShowsQuestion
    /\ ~rerun
    /\ current_q < HintQuestions
    /\ event' = "hint"
    /\ UNCHANGED <<sn_line, sn_results>>
    /\ error' = "none"
    /\ IF hints_for(hints_used, current_q) > MaxHints
       THEN /\ calls' = 0
            /\ UNCHANGED hints_used
       ELSE /\ calls' = 1
            /\ hints_used' = SetHints(hints_used, current_q,
                                      hints_for(hints_used, current_q) + 1)
    /\ UNCHANGED <<page, lesson, quiz, current_q, score, difficulty_grade,
                   rerun, tutRuns, nSubmits, nCorrect>>

\* Hint pressed.
Hint ==
    /\ ShowsQuestion
    /\ ~rerun
    /\ current_q < HintQuestions
    /\ event' = "hint"
    /\ UNCHANGED <<sn_line, sn_results>>
    /\ error' = "none"
    /\ IF hints_for(hints_used, current_q) >= MaxHints
       THEN /\ calls' = 0
            /\ UNCHANGED hints_used
       ELSE /\ calls' = 1
            /\ hints_used' = SetHints(hints_used, current_q,
                                      hints_for(hints_used, current_q) + 1)
    /\ UNCHANGED <<page, lesson, quiz, current_q, score, difficulty_grade, rerun, tutRuns, nSubmits, nCorrect>>

\* Restart offered on every quiz execution, not only on the completion screen
Restart_Anytime ==
    /\ page = "quiz"
    /\ ~rerun
    /\ page' = "home"
    /\ rerun' = TRUE
    /\ event' = "restart"
    /\ UNCHANGED <<sn_line, sn_results>>
    /\ calls' = 0
    /\ error' = "none"
    /\ UNCHANGED <<lesson, quiz, current_q, score, hints_used, difficulty_grade, tutRuns, nSubmits, nCorrect>>

\* Restart pressed on the completion screen.
Restart ==
    /\ page = "quiz"
    /\ ~rerun
    /\ quiz # <<>>
    /\ current_q >= Len(quiz)
    /\ page' = "home"
    /\ rerun' = TRUE
    /\ event' = "restart"
    /\ UNCHANGED <<sn_line, sn_results>>
    /\ calls' = 0
    /\ error' = "none"
    /\ UNCHANGED <<lesson, quiz, current_q, score, hints_used, difficulty_grade, tutRuns, nSubmits, nCorrect>>

-----------------------------------------------------------------------------

Next ==
    \/ \E g \in MinGrade..MaxGrade : HomeRender(g)
    \/ \E subject \in Subjects, concept \in Concepts :
           GenerateTutorial(subject, concept)
    \/ TutorialRender
    \/ \E resp \in LessonReplies : Easier(resp)
    \/ \E resp \in LessonReplies : Harder(resp)
    \/ \E quiz_text \in QuestionReplies, answers_text \in AnswerReplies :
           MoveToQuiz(quiz_text, answers_text)
    \/ \E resp \in LessonReplies : BetterTutorial(resp)
    \/ QuizRender
    \/ \E answer \in Answers : Submit(answer)
    \/ Hint
    \/ Restart

Spec == Init /\ [][Next]_vars

\* Submit pressed with an answer that is not blank
NonBlankSubmit ==
    \E answer \in Answers : Strip(answer) # <<>> /\ Submit(answer)

\* The session with a user who keeps submitting answers: the execution that
\* st.rerun() asks for always runs, and a non-blank Submit is pressed again
\* whenever a question stays on the screen.
LiveSpec ==
    /\ Init
    /\ [][Next]_vars
    /\ WF_vars(QuizRender)
    /\ WF_vars(NonBlankSubmit)

-----------------------------------------------------------------------------
(* strip_numbering on its own                                              *)

\* characters of the lines: a digit, two of the separators, a blank, a letter
StripChars == {"1", ".", ")", " ", "a"}

\* every line of at most MaxLineLen such characters
StripLines == UNION {[1..n -> StripChars] : n \in 0..MaxLineLen}

StripInit ==
    /\ SessionInit
    /\ sn_line \in StripLines
    /\ sn_results = <<>>

\* strip_numbering applied to the line, then to its own result
ApplyStrip ==
    /\ Len(sn_results) < MaxPasses
    /\ sn_results' =
           Append(sn_results,
                  strip_numbering(IF sn_results = <<>>
                                  THEN sn_line
                                  ELSE sn_results[Len(sn_results)]))
    /\ UNCHANGED <<sn_line, page, lesson, quiz, current_q, score, hints_used,
                   difficulty_grade, rerun, event, calls, error, tutRuns,
                   nSubmits, nCorrect>>

StripNext == ApplyStrip

StripSpec == StripInit /\ [][StripNext]_vars

-----------------------------------------------------------------------------
(* Properties                                                              *)

\* what the parsing of two replies should give, computed once for every pair
\* of replies: the number of positional pairs of non-blank lines, and the
\* first QuizSize of them with the numbering stripped
Expected ==
    [quiz_text \in QuestionReplies, answers_text \in AnswerReplies |->
        LET q_lines == NonBlankLines(quiz_text)
            a_lines == NonBlankLines(answers_text)
            n == Min(Len(q_lines), Len(a_lines))
        IN  [usable |-> n,
             pairs |-> [k \in 1..Min(n, QuizSize) |->
                           [question |-> strip_numbering(q_lines[k]),
                            answer |-> strip_numbering(a_lines[k])]]]]

\* C1 as stated: a non-blank Submit that is evaluated leaves current_q as it
\* was (the index moving only on a later Next Question event).
C1_SubmitKeepsIndex ==
    [][event' = "submit" => \A answer \in Answers :
          (Strip(answer) # <<>> /\ Submit(answer) /\ error' = "none")
              => current_q' = current_q]_vars

\* C1 amended: on the quiz page current_q changes only by exactly +1 and only
\* in a non-blank Submit, in the same execution that evaluates the answer;
\* a non-blank Submit makes one call, moves current_q by 1 when the evaluator
\* returns a verdict and leaves it when the evaluator raises.
C1_SubmitAdvances ==
    [][/\ (page = "quiz" /\ current_q' # current_q) =>
              /\ current_q' = current_q + 1
              /\ event' = "submit"
              /\ calls' = 1
              /\ \E answer \in Answers : Strip(answer) # <<>> /\ Submit(answer)
       /\ event' = "submit" => \A answer \in Answers :
              (Strip(answer) # <<>> /\ Submit(answer) /\ error' = "none")
                  => (current_q' = current_q + 1 /\ calls' = 1)
       /\ (event' = "submit" /\ error' # "none")
              => (current_q' = current_q /\ calls' = 1)]_vars

\* an evaluated Submit has just moved the quiz to its second question
C1_Witness ==
    /\ page = "quiz"
    /\ event = "submit"
    /\ calls = 1
    /\ error = "none"
    /\ current_q = 1

\* C2: once as many answers as the quiz has questions were submitted and all
\* were judged correct, score and current_q both equal the quiz length.
C2_AllCorrectCompletes ==
    (page = "quiz" /\ Len(quiz) >= 1 /\ nSubmits = Len(quiz) /\ nCorrect = Len(quiz))
        => (score = Len(quiz) /\ current_q = Len(quiz))

\* a quiz answered correctly throughout stands at its completion screen
C2_Witness ==
    /\ page = "quiz"
    /\ Len(quiz) = QuizSize
    /\ nSubmits = QuizSize
    /\ nCorrect = QuizSize
    /\ score = QuizSize
    /\ current_q = QuizSize

\* C3: no question's hint count exceeds 3, and a Hint pressed at count 3
\* makes no generation call and leaves every counter unchanged.
C3_HintBudget ==
    /\ [](\A q \in DOMAIN hints_used : hints_used[q] <= MaxHints)
    /\ [][(event' = "hint" /\ hints_for(hints_used, current_q) = MaxHints)
             => (calls' = 0 /\ hints_used' = hints_used)]_vars

\* a fourth Hint on the first question was refused
C3_Witness ==
    /\ event = "hint"
    /\ calls = 0
    /\ current_q = 0
    /\ hints_for(hints_used, 0) = MaxHints

\* C4: a Submit whose answer is empty or whitespace changes no session field
\* and makes no call to the evaluator.
C4_BlankSubmitNoChange ==
    [][event' = "submit" => \A answer \in Answers :
          (Strip(answer) = <<>> /\ Submit(answer))
              => /\ calls' = 0
                 /\ error' = "none"
                 /\ UNCHANGED <<page, lesson, quiz, current_q, score,
                                hints_used, difficulty_grade>>]_vars

\* a blank Submit was made halfway through a quiz
C4_Witness ==
    /\ page = "quiz"
    /\ event = "submit"
    /\ calls = 0
    /\ current_q = 5
    /\ score = 2

\* C5 as stated: for every pair of replies the confirmation completes, the
\* page becomes quiz, and with zero parsed pairs the stored quiz is empty.
C5_MoveToQuizNeverFails ==
    [][event' = "to_quiz" =>
       \A quiz_text \in QuestionReplies, answers_text \in AnswerReplies :
          MoveToQuiz(quiz_text, answers_text)
              => /\ error' = "none"
                 /\ page' = "quiz"
                 /\ (Expected[quiz_text, answers_text].usable = 0 => quiz' = <<>>)]_vars

\* C6 as stated: the evaluator never raises into the Submit handler.
C6_EvaluatorNeverRaises == event = "submit" => error = "none"

\* C7 as stated: the confirmation stores a quiz of at most 10 pairs and at
\* most as many as both replies have non-blank lines, each one a parsed pair.
C7_ShortQuizNoFiller ==
    [][event' = "to_quiz" =>
       \A quiz_text \in QuestionReplies, answers_text \in AnswerReplies :
          MoveToQuiz(quiz_text, answers_text)
              => /\ page' = "quiz"
                 /\ Len(quiz') <= QuizSize
                 /\ Len(quiz') <= Expected[quiz_text, answers_text].usable
                 /\ \A k \in 1..Len(quiz') :
                        quiz'[k] = Expected[quiz_text, answers_text].pairs[k]]_vars

\* C8 as stated: no stored pair has an answer that, trimmed and lower-cased,
\* is "insufficient".
C8_NoInsufficientAnswer ==
    \A k \in 1..Len(quiz) : Lower(Strip(quiz[k].answer)) # Lower(Insufficient)

\* C8 amended: no pair is dropped for its answer.  A confirmation either
\* stores the first 10 positional pairs, "insufficient" answers included, or
\* (with fewer than 10 pairs) stores nothing and leaves the quiz as it was.
C8_PairsKept ==
    [][event' = "to_quiz" =>
       \A quiz_text \in QuestionReplies, answers_text \in AnswerReplies :
          MoveToQuiz(quiz_text, answers_text)
              => IF Expected[quiz_text, answers_text].usable >= QuizSize
                 THEN /\ error' = "none"
                      /\ quiz' = Expected[quiz_text, answers_text].pairs
                 ELSE /\ error' # "none"
                      /\ quiz' = quiz]_vars

\* the quiz page holds a quiz whose third answer is "insufficient"
C8_Witness ==
    /\ page = "quiz"
    /\ Len(quiz) = QuizSize
    /\ Lower(quiz[3].answer) = Lower(Insufficient)
    /\ quiz[4].answer = <<"A", "d">>

\* C9: a tutorial execution with no button pressed makes no generation call;
\* Easier or Harder that leaves the grade makes none; a Harder press that
\* changes the grade makes exactly one call over itself and the two
\* executions that follow it without a button.
C9_OneGenerationPerChange ==
    \A k \in 1..Len(tutRuns) :
        /\ tutRuns[k].ev = "render" => tutRuns[k].calls = 0
        /\ (tutRuns[k].ev \in {"easier", "harder"}
              /\ tutRuns[k].before = tutRuns[k].after) => tutRuns[k].calls = 0
        /\ (/\ tutRuns[k].ev = "harder"
            /\ tutRuns[k].before # tutRuns[k].after
            /\ k + 2 <= Len(tutRuns)
            /\ tutRuns[k + 1].ev = "render"
            /\ tutRuns[k + 2].ev = "render")
           => tutRuns[k].calls + tutRuns[k + 1].calls + tutRuns[k + 2].calls = 1

\* Harder moved the grade from 6 to 7 and two renders followed
C9_Witness ==
    /\ page = "tutorial"
    /\ Len(tutRuns) >= 3
    /\ \E k \in 1..(Len(tutRuns) - 2) :
        /\ tutRuns[k].ev = "harder"
        /\ tutRuns[k].before = 6
        /\ tutRuns[k].after = 7
        /\ tutRuns[k].calls = 1
        /\ tutRuns[k + 1].ev = "render"
        /\ tutRuns[k + 2].ev = "render"
    /\ difficulty_grade = 7

\* C10: right after a lesson regeneration on the tutorial page (Easier or
\* Harder that changed the grade, or "Give me a better tutorial") the quiz is
\* empty.
C10_RegenerationEmptiesQuiz ==
    (event \in {"easier", "harder", "better"} /\ calls = 1) => quiz = <<>>

\* "Give me a better tutorial" regenerated the lesson and the generation
\* client answered with its failure string
C10_Witness ==
    /\ page = "tutorial"
    /\ event = "better"
    /\ calls = 1
    /\ quiz = <<>>
    /\ lesson = ErrorReply

-----------------------------------------------------------------------------
\* C11: every tutorial confirmation that stores a quiz leaves the index at
\* 0, the score at 0 and the hint record empty, and moves to the quiz page
\* with the first question shown and no feedback held over; a confirmation
\* that raises stores nothing.
C11_QuizGenerationResets ==
    [][event' = "to_quiz" =>
          IF error' = "none"
          THEN /\ page' = "quiz"
               /\ quiz' # <<>>
               /\ current_q' = 0
               /\ score' = 0
               /\ hints_used' = <<>>
               /\ nSubmits' = 0
          ELSE UNCHANGED <<page, quiz, current_q, score, hints_used>>]_vars

\* A quiz has just been stored by the confirmation in a session whose grade
\* had been changed on the tutorial page before.
C11_Witness ==
    /\ event = "to_quiz"
    /\ error = "none"
    /\ page = "quiz"
    /\ rerun
    /\ difficulty_grade # DefaultGrade
    /\ current_q = 0
    /\ score = 0
    /\ hints_used = <<>>

-----------------------------------------------------------------------------
\* C12 as stated: on the tutorial and quiz pages, which are reached only
\* through a Generate Tutorial with a non-blank concept, the subject and the
\* concept chosen on the home page are at hand, in the session or as names of
\* the running script.
C12_SubjectConceptAvailable ==
    page \in {"tutorial", "quiz"} =>
        {"subject", "concept"} \subseteq (SessionKeys \cup BoundNames(page))

-----------------------------------------------------------------------------
\* C13: the difficulty grade is always one of 1..12; Easier at grade 1 and
\* Harder at grade 12 leave it unchanged, and every other Easier or Harder
\* moves it by exactly one.
C13_GradeInRange ==
    /\ [](difficulty_grade \in MinGrade..MaxGrade)
    /\ [][/\ event' = "easier" =>
                difficulty_grade' = IF difficulty_grade = MinGrade
                                    THEN difficulty_grade
                                    ELSE difficulty_grade - 1
          /\ event' = "harder" =>
                difficulty_grade' = IF difficulty_grade = MaxGrade
                                    THEN difficulty_grade
                                    ELSE difficulty_grade + 1]_vars

\* Harder was pressed at grade 12 after the grade had been raised from 11 on
\* the tutorial page: the press changed nothing and made no call.
C13_Witness ==
    /\ page = "tutorial"
    /\ event = "harder"
    /\ calls = 0
    /\ difficulty_grade = MaxGrade
    /\ \E k \in 1..Len(tutRuns) :
          /\ tutRuns[k].ev = "harder"
          /\ tutRuns[k].before = MaxGrade - 1
          /\ tutRuns[k].after = MaxGrade

-----------------------------------------------------------------------------
\* C14: in every reachable state, whatever the page, the score and the
\* question index are between 0 and the number of stored quiz pairs.
C14_ScoreAndIndexBounded ==
    /\ 0 <= score
    /\ score <= Len(quiz)
    /\ 0 <= current_q
    /\ current_q <= Len(quiz)

\* The home page shown after Restart: the finished quiz, its index at the
\* end and a score of 4 are still in the session.
C14_Witness ==
    /\ page = "home"
    /\ event = "home_render"
    /\ Len(quiz) = QuizSize
    /\ current_q = Len(quiz)
    /\ score = 4

-----------------------------------------------------------------------------
\* the text begins with a digit
BeginsWithDigit(s) == s # <<>> /\ IsDigit(s[1])

\* C15 as stated: applying strip_numbering to its own result gives that
\* result again.
C15_StripIdempotent ==
    Len(sn_results) >= 2 => sn_results[2] = sn_results[1]

\* C15: a second application of strip_numbering changes nothing when the
\* first result does not begin with a digit, and removes at least one more
\* character when it does; a line whose first non-blank character is not a
\* digit comes back trimmed and otherwise unchanged.
C15_StripOnceUnlessDigit ==
    /\ (Len(sn_results) >= 2 /\ ~BeginsWithDigit(sn_results[1]))
           => sn_results[2] = sn_results[1]
    /\ (Len(sn_results) >= 2 /\ BeginsWithDigit(sn_results[1]))
           => Len(sn_results[2]) < Len(sn_results[1])
    /\ (Len(sn_results) >= 1 /\ ~BeginsWithDigit(Strip(sn_line)))
           => sn_results[1] = Strip(sn_line)

\* " 1.a" was stripped twice: both passes gave "a".
C15_Witness ==
    /\ sn_line = <<" ", "1", ".", "a">>
    /\ sn_results = << <<"a">>, <<"a">> >>

-----------------------------------------------------------------------------
\* C16: the page leaves quiz only for home and only through Restart; Restart
\* is taken only on the quiz page with a non-empty quiz whose index equals
\* its length; Submit, Hint and the plain quiz execution leave the page.
C16_OnlyRestartLeavesQuiz ==
    [][/\ (page = "quiz" /\ page' # page)
              => (page' = "home" /\ event' = "restart")
       /\ event' = "restart"
              => (page = "quiz" /\ quiz # <<>> /\ current_q = Len(quiz))
       /\ event' \in {"submit", "hint", "quiz_render"}
              => (page = "quiz" /\ page' = "quiz")]_vars

\* Restart has just been pressed on the completion screen: the page is home,
\* its execution pending, and the finished quiz is still stored.
C16_Witness ==
    /\ page = "home"
    /\ event = "restart"
    /\ rerun
    /\ quiz # <<>>
    /\ current_q = Len(quiz)

-----------------------------------------------------------------------------
\* the grading replies whose first non-blank line, trimmed and lower-cased,
\* starts with "correct"
AcceptedReplies ==
    {resp \in GradeReplies :
        LET lines == NonBlankLines(resp) IN
        /\ lines # <<>>
        /\ StartsWith(Lower(Strip(lines[1])), <<"c", "o", "r", "r", "e", "c", "t">>)}

\* C17: the evaluator returns a true verdict exactly for the replies whose
\* first non-blank line, trimmed and lower-cased, starts with "correct"
\* ("Correctly" is accepted, "INCORRECT" is not); a Submit that evaluates an
\* answer adds exactly 1 to the score on a true verdict and leaves the score
\* unchanged otherwise.
C17_VerdictAndScore ==
    [][(event' = "submit" /\ calls' = 1) =>
          \A resp \in GradeReplies :
              /\ (Verdicts[resp].raised = "none" /\ Verdicts[resp].is_correct)
                     <=> resp \in AcceptedReplies
              /\ SubmitAnswer(resp)
                     => score' = score + (IF resp \in AcceptedReplies THEN 1 ELSE 0)]_vars

\* Two answers have been evaluated, one judged correct and one not: the
\* score is 1.
C17_Witness ==
    /\ page = "quiz"
    /\ event = "submit"
    /\ error = "none"
    /\ nSubmits = 2
    /\ nCorrect = 1
    /\ score = 1
    /\ <<"C", "o", "r", "r", "e", "c", "t", "l", "y">> \in AcceptedReplies
    /\ <<"I", "N", "C", "O", "R", "R", "E", "C", "T", "\n", "n", "o">>
           \in GradeReplies \ AcceptedReplies

-----------------------------------------------------------------------------
\* C18: on the tutorial page the quiz is empty, the index and the score are
\* 0 and no hint is recorded; a non-empty quiz is stored only on the quiz
\* page, or on the home page with its index at the end, where only Restart
\* leads.
C18_TutorialHasNoQuiz ==
    /\ page = "tutorial" =>
          (quiz = <<>> /\ current_q = 0 /\ score = 0 /\ hints_used = <<>>)
    /\ quiz # <<>> =>
          \/ page = "quiz"
          \/ page = "home" /\ current_q = Len(quiz)

\* Generate Tutorial was pressed with a blank concept on the home page
\* reached by Restart: the page is still home and the finished quiz is
\* still stored.
C18_Witness ==
    /\ page = "home"
    /\ event = "generate"
    /\ calls = 0
    /\ quiz # <<>>

-----------------------------------------------------------------------------
\* C19: whenever the page is quiz the stored quiz has exactly 10 pairs, so a
\* quiz execution never finds the quiz empty and never takes the "No quiz
\* available" branch.
C19_QuizPageHasTen ==
    page = "quiz" => (quiz # <<>> /\ Len(quiz) = QuizSize)

\* The quiz page has been executed right after a confirmation whose answer
\* reply had eleven lines: ten pairs are stored and the first question is
\* shown.
C19_Witness ==
    /\ page = "quiz"
    /\ event = "quiz_render"
    /\ ~rerun
    /\ ShowsQuestion
    /\ current_q = 0
    /\ Len(quiz) = QuizSize
    /\ Lower(quiz[3].answer) = Lower(Insufficient)

-----------------------------------------------------------------------------
=============================================================================
